---- MODULE Spec2Model ----
(***************************************************************************)
(* The BlueZ D-Bus backend of the Bless GATT server                        *)
(* (bless/backends/bluezdbus/server.py, class BlessServerBlueZDBus).       *)
(*                                                                         *)
(* The facade keeps an ordered map  services  (uuid -> service with its    *)
(* characteristics) next to the native application object graph  app.      *)
(* Asynchronous operations run as tasks that suspend at each await; the    *)
(* synchronous ones (update_value, read, write) are single steps.          *)
(*                                                                         *)
(* BlueZGattApplication and the bleak entity classes are modelled from the  *)
(* specification of the backend adapter. Every specification starts with   *)
(* the application object that rejects a uuid it already holds; the        *)
(* operators also say what the facade does with one that does not.         *)
(*                                                                         *)
(* Five specifications share the variables and the actions:                *)
(*   Spec            services, characteristics, their values, start and    *)
(*                   the inbound read/write events, one caller at a time   *)
(*   SpecAdvertising setup and its failures, start, stop, is_advertising,  *)
(*                   subscribers and update_value, one caller at a time    *)
(*   SpecSignals     stop, is_connected, disconnect, the connected and     *)
(*                   disconnected callbacks and the signals of the bus     *)
(*   SpecConcurrent  two callers that add the same service and             *)
(*                   characteristic, in every interleaving of their awaits *)
(*   SpecLifecycle   two callers that start and stop the server, in every  *)
(*                   interleaving of their awaits                          *)
(***************************************************************************)
EXTENDS Integers, Sequences, FiniteSets, TLC

VARIABLES
    setup,        \* progress of setup_task: "connect", "adapter", "done", or the
                  \* error the task ended with
    services,     \* self.services, in insertion order: Seq of [uuid, characteristics]
    appServices,  \* self.app.services: Seq of [uuid, characteristics]
    registered,   \* the application is registered with the adapter
    advertising,  \* the adapter advertises the application
    subscribed,   \* native roster: the <<service, char>> pairs with a subscriber
    tasks,        \* the asynchronous operations in flight, one record per task
    last,         \* what the step just taken returned to its caller
    connected_callback,     \* self.connected_callback
    disconnected_callback,  \* self.disconnected_callback
    matches,      \* the signal matches the bus holds, in the order they were
                  \* added: Seq of <<member, callback>>
    centrals,     \* the centrals that hold a connection to the application
    appRejectsDuplicates
                  \* the class of self.app (line 67): TRUE for the application
                  \* object of spec 4.2, which rejects a uuid it already holds;
                  \* FALSE for one that makes no such check of its own

\* the callback slots and what the bus knows about signals and peers
signalVars == <<connected_callback, disconnected_callback, matches, centrals>>

vars == <<setup, services, appServices, registered,
          advertising, subscribed, tasks, last, signalVars, appRejectsDuplicates>>

(***************************************************************************)
(* Bounds and input domains                                                *)
(***************************************************************************)
Tasks == {"t1"}
ConcurrentTasks == {"t1", "t2"}   \* two callers at a time
ServiceSlots == 1..2          \* positions in a list of services
CharSlots == 1..1             \* positions in a list of characteristics

\* UUID texts as callers pass them, and the lowercase form of each
RawServiceUuids == {"a1", "A1", "b2"}
RawCharUuids == {"c3", "C3"}

Values == {"", "01"}             \* byte sequences, in hex
None == "None"
ValuesOrNone == Values \cup {None}

\* the errors that end the setup task: no bus connection, no adapter
SetupErrors == {"TransportUnavailable", "AdapterUnavailable"}

\* callbacks: the lambda of __init__ and two functions of the application;
\* NotCallable is an argument that is no function
DefaultCallback == "lambda"
Callbacks == {"f", "g"}
NotCallable == "x"
Peers == {"p1"}                  \* addresses of centrals
MaxMatches == 3                  \* signal matches the bus takes

GattCharacteristicsFlags == [read |-> 2, write |-> 8, notify |-> 16]
PropertySets == {{2}, {2, 8, 16}}

(***************************************************************************)
(* Pure helpers                                                            *)
(***************************************************************************)
\* str(u).lower()
Lower(u) ==
    CASE u = "A1" -> "a1"
      [] u = "C3" -> "c3"
      [] OTHER -> u

\* Flags.from_bless(properties): the native flag of every set property bit
FromBless(properties) ==
    {n \in DOMAIN GattCharacteristicsFlags : GattCharacteristicsFlags[n] \in properties}

\* the index of the first element of seq whose uuid is u, 0 when there is none
IndexOf(seq, u) ==
    IF \E i \in DOMAIN seq : seq[i].uuid = u
    THEN CHOOSE i \in DOMAIN seq :
            /\ seq[i].uuid = u
            /\ \A j \in DOMAIN seq : seq[j].uuid = u => i <= j
    ELSE 0

Has(seq, u) == IndexOf(seq, u) # 0

\* service.get_characteristic(uuid): the first characteristic with that uuid
GetCharacteristic(service, u) == service.characteristics[IndexOf(service.characteristics, u)]

\* BaseBlessServer.get_characteristic(uuid): first match in service-then-
\* characteristic iteration order; <<0, 0>> when no service holds it
Locate(svcs, u) ==
    IF \E i \in DOMAIN svcs : Has(svcs[i].characteristics, u)
    THEN LET i == CHOOSE k \in DOMAIN svcs :
                    /\ Has(svcs[k].characteristics, u)
                    /\ \A j \in DOMAIN svcs : Has(svcs[j].characteristics, u) => k <= j
         IN <<i, IndexOf(svcs[i].characteristics, u)>>
    ELSE <<0, 0>>

\* characteristic.value = v: the attribute is created when it is not there
SetCharValue(svcs, i, k, v) ==
    [svcs EXCEPT ![i].characteristics[k] =
        [uuid |-> @.uuid, value |-> v, flags |-> @.flags]]

\* what reading the value attribute of an entity object gives when the object
\* has none: the read raises
NoValue == "NoValue"

\* hasattr(char, "value")
HasValue(char) == "value" \in DOMAIN char

\* char.value, NoValue when the read raises
ValueOf(char) == IF HasValue(char) THEN char.value ELSE NoValue

\* the <<service uuid, characteristic uuid>> pairs a graph holds
Pairs(svcs) ==
    UNION {{<<svcs[i].uuid, svcs[i].characteristics[k].uuid>> :
                k \in DOMAIN svcs[i].characteristics} : i \in DOMAIN svcs}

(***************************************************************************)
(* The native application (BlueZGattApplication) and the bleak entity      *)
(* classes, as the facade uses them                                        *)
(***************************************************************************)
\* app.add_service(uuid): the outcomes the application object can give. It
\* appends a new service node and returns it; path is the position of that
\* node in the graph (its object path). For a uuid that is already there the
\* application object of spec 4.2 rejects the call; one that makes no check of
\* its own may also append a second node with the same uuid.
AppAddService(svcs, u) ==
    LET rejected == [err |-> "DuplicateService", services |-> svcs, path |-> <<0, 0>>]
        added == [err |-> "",
                  services |-> Append(svcs, [uuid |-> u, characteristics |-> <<>>]),
                  path |-> <<Len(svcs) + 1, 0>>]
    IN  IF ~Has(svcs, u) THEN {added}
        ELSE IF appRejectsDuplicates THEN {rejected}
        ELSE {rejected, added}

\* app.add_characteristic(service_uuid, char_uuid, value, flags): the outcomes
\* the application object can give. The characteristic joins the first service
\* node of that uuid and is returned; path is its position in the graph.
\* Duplicates as in add_service.
AppAddCharacteristic(svcs, su, cu, value, flags) ==
    LET i == IndexOf(svcs, su) IN
    IF i = 0 THEN {[err |-> "UnknownService", services |-> svcs, path |-> <<0, 0>>]}
    ELSE LET rejected == [err |-> "DuplicateCharacteristic", services |-> svcs,
                          path |-> <<0, 0>>]
             added == [err |-> "",
                       services |-> [svcs EXCEPT ![i].characteristics =
                            Append(@, [uuid |-> cu, value |-> value, flags |-> flags])],
                       path |-> <<i, Len(svcs[i].characteristics) + 1>>]
         IN  IF ~Has(svcs[i].characteristics, cu) THEN {added}
             ELSE IF appRejectsDuplicates THEN {rejected}
             ELSE {rejected, added}

\* app.start_advertising(adapter): nothing to advertise without a service,
\* a no-op when already advertising
AppStartAdvertising(svcs, adv) ==
    IF svcs = <<>> THEN [err |-> "NothingToAdvertise", advertising |-> adv]
    ELSE [err |-> "", advertising |-> TRUE]

\* BleakGATTServiceBlueZDBus(dict_obj, path): a service without characteristics
BleakService(dictObj) == [uuid |-> dictObj.uuid, characteristics |-> <<>>]

\* BleakGATTCharacteristicBlueZDBus(dict_obj, path, service_uuid): the objects
\* the class can build from the properties: one that carries the value of the
\* properties, or one without a value attribute
BleakCharacteristic(dictObj) ==
    {[uuid |-> dictObj.uuid, value |-> dictObj.value, flags |-> dictObj.flags],
     [uuid |-> dictObj.uuid, flags |-> dictObj.flags]}

\* self.services[uuid] = service on the insertion-ordered dict
DictSet(svcs, service) ==
    IF Has(svcs, service.uuid)
    THEN [svcs EXCEPT ![IndexOf(svcs, service.uuid)] = service]
    ELSE Append(svcs, service)

(***************************************************************************)
(* Tasks and observations                                                  *)
(***************************************************************************)
NoPre == [advertising |-> FALSE, registered |-> FALSE, empty |-> FALSE, setup |-> "",
          svc |-> FALSE, appSvc |-> FALSE, chr |-> FALSE,
          slots |-> <<>>, matches |-> <<>>]

\* the facts of the moment an operation on service su and characteristic cu
\* begins; at is the state of setup when it was called
PreOf(su, cu, at) ==
    [advertising |-> advertising, registered |-> registered,
     empty |-> (appServices = <<>>), setup |-> at,
     svc |-> Has(services, su), appSvc |-> Has(appServices, su),
     chr |-> (<<su, cu>> \in Pairs(services)),
     slots |-> <<connected_callback, disconnected_callback>>, matches |-> matches]


\* a task: the operation, the await it is suspended at, its arguments, and
\* path, the object the application returned to it (gatt_service, gatt_char)
Idle == [op |-> "idle", pc |-> "idle", su |-> "", cu |-> "", value |-> "",
         props |-> {}, path |-> <<0, 0>>, issued |-> <<>>, pre |-> NoPre]

\* an operation called while setup is running waits for it
Parked(op) == [Idle EXCEPT !.op = op, !.pc = "setup", !.pre = [NoPre EXCEPT !.setup = setup]]

\* raised: the handler of the application failed;
\* native: how the bus call of the operation ended ("ok", "error", or "" when
\* none was made); invoked: the callbacks a signal was delivered to
NoObs == [op |-> "", su |-> "", cu |-> "", value |-> "", result |-> "",
          handler |-> <<>>, commit |-> FALSE, issued |-> <<>>, pre |-> NoPre,
          before |-> <<>>, native |-> "", invoked |-> <<>>, raised |-> FALSE]

\* an asynchronous operation ends: its task is free again, its caller sees result
Finish(t, rec, result, before) ==
    /\ tasks' = [tasks EXCEPT ![t] = Idle]
    /\ last' = [NoObs EXCEPT !.op = rec.op, !.su = rec.su, !.cu = rec.cu,
                             !.value = rec.value, !.result = result,
                             !.issued = rec.issued, !.pre = rec.pre,
                             !.before = before]

\* an asynchronous operation suspends at its next await
Suspend(t, rec) ==
    /\ tasks' = [tasks EXCEPT ![t] = rec]
    /\ last' = NoObs

\* await self.setup_task: the caller waits while the task runs; a task that
\* ended with an error raises that error in every caller that awaits it
AwaitSetup(t, rec) ==
    IF setup \in SetupErrors
    THEN Finish(t, rec, setup, <<>>)
    ELSE Suspend(t, rec)

Init ==
    /\ setup = "connect"
    /\ services = <<>>
    /\ appServices = <<>>
    /\ registered = FALSE
    /\ advertising = FALSE
    /\ subscribed = {}
    /\ tasks = [t \in Tasks |-> Idle]
    /\ last = NoObs
    /\ connected_callback = DefaultCallback
    /\ disconnected_callback = DefaultCallback
    /\ matches = <<>>
    /\ centrals = {}
    /\ appRejectsDuplicates = TRUE

(***************************************************************************)
(* setup (the task created by __init__)                                    *)
(***************************************************************************)
\* the bus connection is there: self.bus and self.app exist, Read/Write are wired
SetupConnect ==
    /\ setup = "connect"
    /\ setup' = "adapter"
    /\ last' = NoObs
    /\ UNCHANGED <<appRejectsDuplicates, services, appServices, registered,
                   advertising, subscribed, tasks, signalVars>>

\* get_adapter returned: self.adapter exists and setup_task is done
SetupAdapter ==
    /\ setup = "adapter"
    /\ setup' = "done"
    /\ last' = NoObs
    /\ UNCHANGED <<appRejectsDuplicates, services, appServices, registered,
                   advertising, subscribed, tasks, signalVars>>

\* line 62 raises: the system bus cannot be reached
SetupConnectFails ==
    /\ setup = "connect"
    /\ setup' = "TransportUnavailable"
    /\ last' = NoObs
    /\ UNCHANGED <<appRejectsDuplicates, services, appServices, registered,
                   advertising, subscribed, tasks, signalVars>>

\* line 78 raises: the bus has no adapter
SetupAdapterFails ==
    /\ setup = "adapter"
    /\ setup' = "AdapterUnavailable"
    /\ last' = NoObs
    /\ UNCHANGED <<appRejectsDuplicates, services, appServices, registered,
                   advertising, subscribed, tasks, signalVars>>

\* an operation that waits at  await self.setup_task  when the task fails is
\* resumed with the task's error
SetupFailed(t) ==
    /\ tasks[t].pc = "setup"
    /\ setup \in SetupErrors
    /\ Finish(t, tasks[t], setup, <<>>)
    /\ UNCHANGED <<appRejectsDuplicates, setup, services, appServices, registered,
                   advertising, subscribed, signalVars>>

(***************************************************************************)
(* start, stop, is_advertising                                             *)
(***************************************************************************)
\* start, lines 92-93: export the application, request its bus name
StartBody(t, at) ==
    /\ Suspend(t, [Idle EXCEPT !.op = "start", !.pc = "requestBusName",
                               !.pre = PreOf("", "", at),
                               !.issued = <<"exportObject", "requestBusName">>])
    /\ UNCHANGED <<appRejectsDuplicates, setup, services, appServices, registered,
                   advertising, subscribed, signalVars>>

\* start is called; line 89 suspends it while setup_task is running
CallStart(t) ==
    /\ tasks[t].op = "idle"
    /\ IF setup = "done"
       THEN StartBody(t, setup)
       ELSE /\ AwaitSetup(t, Parked("start"))
            /\ UNCHANGED <<appRejectsDuplicates, setup, services, appServices, registered, advertising, subscribed, signalVars>>

\* start that goes on after  await self.setup_task  raised
ResumeStartAfterFailure(t) ==
    /\ tasks[t].op = "start"
    /\ tasks[t].pc = "setup"
    /\ setup \in {"done"} \cup SetupErrors
    /\ StartBody(t, tasks[t].pre.setup)

ResumeStart(t) ==
    /\ tasks[t].op = "start"
    /\ tasks[t].pc = "setup"
    /\ setup = "done"
    /\ StartBody(t, tasks[t].pre.setup)

\* line 93 returns; line 96 asks the adapter to register the application
StartBusNameReply(t) ==
    /\ tasks[t].op = "start"
    /\ tasks[t].pc = "requestBusName"
    /\ Suspend(t, [tasks[t] EXCEPT !.pc = "register", !.issued = Append(@, "register")])
    /\ UNCHANGED <<appRejectsDuplicates, setup, services, appServices, registered,
                   advertising, subscribed, signalVars>>

\* line 96 returns; line 99 asks the adapter to advertise
StartRegisterReply(t) ==
    /\ tasks[t].op = "start"
    /\ tasks[t].pc = "register"
    /\ registered' = TRUE
    /\ Suspend(t, [tasks[t] EXCEPT !.pc = "start_advertising",
                                   !.issued = Append(@, "start_advertising")])
    /\ UNCHANGED <<appRejectsDuplicates, setup, services, appServices, advertising, subscribed, signalVars>>

\* line 99 returns or raises; line 101 returns True
StartAdvertiseReply(t) ==
    /\ tasks[t].op = "start"
    /\ tasks[t].pc = "start_advertising"
    /\ LET r == AppStartAdvertising(appServices, advertising) IN
        /\ advertising' = r.advertising
        /\ Finish(t, tasks[t], IF r.err = "" THEN "True" ELSE r.err, <<>>)
    /\ UNCHANGED <<appRejectsDuplicates, setup, services, appServices, registered, subscribed, signalVars>>

\* stop is called: line 113 reads self.app and self.adapter, which exist once
\* setup is done, and asks the adapter to stop advertising
CallStop(t) ==
    /\ tasks[t].op = "idle"
    /\ IF setup = "done"
       THEN Suspend(t, [Idle EXCEPT !.op = "stop", !.pc = "stop_advertising",
                                    !.pre = PreOf("", "", setup),
                                    !.issued = <<"stop_advertising">>])
       ELSE /\ tasks' = tasks
            /\ last' = [NoObs EXCEPT !.op = "stop", !.result = "AttributeError",
                                     !.pre = PreOf("", "", setup)]
    /\ UNCHANGED <<appRejectsDuplicates, setup, services, appServices, registered,
                   advertising, subscribed, signalVars>>

\* stop that unregisters without having stopped the advertisement
StopAdvertiseReplyStillAdvertising(t) ==
    /\ tasks[t].op = "stop"
    /\ tasks[t].pc = "stop_advertising"
    /\ Suspend(t, [tasks[t] EXCEPT !.pc = "unregister", !.issued = Append(@, "unregister")])
    /\ UNCHANGED <<appRejectsDuplicates, setup, services, appServices, registered, advertising, subscribed, signalVars>>

\* line 113 returns; line 116 asks the adapter to unregister the application
StopAdvertiseReply(t) ==
    /\ tasks[t].op = "stop"
    /\ tasks[t].pc = "stop_advertising"
    /\ advertising' = FALSE
    /\ Suspend(t, [tasks[t] EXCEPT !.pc = "unregister", !.issued = Append(@, "unregister")])
    /\ UNCHANGED <<appRejectsDuplicates, setup, services, appServices, registered,
                   subscribed, signalVars>>

\* line 116 returns; line 118 returns True. An unregistered application has
\* no subscribers left.
StopUnregisterReply(t) ==
    /\ tasks[t].op = "stop"
    /\ tasks[t].pc = "unregister"
    /\ registered' = FALSE
    /\ subscribed' = {}
    /\ Finish(t, tasks[t], "True", <<>>)
    /\ UNCHANGED <<appRejectsDuplicates, setup, services, appServices, advertising, signalVars>>

\* is_advertising, line 141: ask the adapter
IsAdvertisingBody(t, at) ==
    /\ Suspend(t, [Idle EXCEPT !.op = "is_advertising", !.pc = "is_advertising",
                               !.pre = PreOf("", "", at)])
    /\ UNCHANGED <<appRejectsDuplicates, setup, services, appServices, registered,
                   advertising, subscribed, signalVars>>

CallIsAdvertising(t) ==
    /\ tasks[t].op = "idle"
    /\ IF setup = "done"
       THEN IsAdvertisingBody(t, setup)
       ELSE /\ AwaitSetup(t, Parked("is_advertising"))
            /\ UNCHANGED <<appRejectsDuplicates, setup, services, appServices, registered, advertising, subscribed, signalVars>>

ResumeIsAdvertising(t) ==
    /\ tasks[t].op = "is_advertising"
    /\ tasks[t].pc = "setup"
    /\ setup = "done"
    /\ IsAdvertisingBody(t, tasks[t].pre.setup)

\* the adapter answers with its advertising state
IsAdvertisingReply(t) ==
    /\ tasks[t].op = "is_advertising"
    /\ tasks[t].pc = "is_advertising"
    /\ Finish(t, tasks[t], IF advertising THEN "True" ELSE "False", <<>>)
    /\ UNCHANGED <<appRejectsDuplicates, setup, services, appServices, registered,
                   advertising, subscribed, signalVars>>

(***************************************************************************)
(* add_new_service                                                         *)
(***************************************************************************)
\* add_new_service that ignores the application's DuplicateService and goes on
AddNewServiceBodyIgnoringError(t, raw, at) ==
    LET u == Lower(raw)
        rec == [Idle EXCEPT !.op = "add_new_service", !.pc = "add_service", !.su = u,
                            !.pre = PreOf(u, "", at)]
    IN  /\ \E r \in AppAddService(appServices, u) :
              /\ appServices' = r.services
              /\ Suspend(t, [rec EXCEPT !.path = IF r.err = "" THEN r.path
                                                ELSE <<IndexOf(appServices, u), 0>>])
        /\ UNCHANGED <<appRejectsDuplicates, setup, services, registered,
                       advertising, subscribed, signalVars>>

\* lines 155-157: normalise the uuid, add the service node to the application
AddNewServiceBody(t, raw, at) ==
    LET u == Lower(raw)
        rec == [Idle EXCEPT !.op = "add_new_service", !.pc = "add_service", !.su = u,
                            !.pre = PreOf(u, "", at)]
    IN  /\ \E r \in AppAddService(appServices, u) :
              /\ appServices' = r.services
              /\ IF r.err = ""
                 THEN Suspend(t, [rec EXCEPT !.path = r.path])
                 ELSE Finish(t, rec, r.err, <<services, appServices>>)
        /\ UNCHANGED <<appRejectsDuplicates, setup, services, registered,
                       advertising, subscribed, signalVars>>

CallAddNewService(t, raw) ==
    /\ tasks[t].op = "idle"
    /\ IF setup = "done"
       THEN AddNewServiceBody(t, raw, setup)
       ELSE /\ AwaitSetup(t, [Parked("add_new_service") EXCEPT !.su = raw])
            /\ UNCHANGED <<appRejectsDuplicates, setup, services, appServices, registered, advertising, subscribed, signalVars>>

ResumeAddNewService(t) ==
    /\ tasks[t].op = "add_new_service"
    /\ tasks[t].pc = "setup"
    /\ setup = "done"
    /\ AddNewServiceBody(t, tasks[t].su, tasks[t].pre.setup)

\* line 157 returns; line 158 asks the bus for the remote object
AddServiceReply(t) ==
    /\ tasks[t].op = "add_new_service"
    /\ tasks[t].pc = "add_service"
    /\ Suspend(t, [tasks[t] EXCEPT !.pc = "getRemoteObject"])
    /\ UNCHANGED <<appRejectsDuplicates, setup, services, appServices, registered,
                   advertising, subscribed, signalVars>>

\* line 158 returns; line 161 asks the object for its properties
AddServiceRemoteObject(t) ==
    /\ tasks[t].op = "add_new_service"
    /\ tasks[t].pc = "getRemoteObject"
    /\ Suspend(t, [tasks[t] EXCEPT !.pc = "GetAll"])
    /\ UNCHANGED <<appRejectsDuplicates, setup, services, appServices, registered,
                   advertising, subscribed, signalVars>>

\* lines 161-167: the properties arrive, the service enters self.services
AddServiceStore(t, svcs) ==
    LET dictObj == appServices[tasks[t].path[1]]
    IN  DictSet(svcs, BleakService(dictObj))

AddServiceGetAll(t) ==
    /\ tasks[t].op = "add_new_service"
    /\ tasks[t].pc = "GetAll"
    /\ services' = AddServiceStore(t, services)
    /\ Finish(t, tasks[t], "None", <<>>)
    /\ UNCHANGED <<appRejectsDuplicates, setup, appServices, registered,
                   advertising, subscribed, signalVars>>

(***************************************************************************)
(* add_new_characteristic                                                  *)
(***************************************************************************)
\* add_new_characteristic that ignores the application's error and goes on
AddNewCharacteristicBodyIgnoringError(t, rawS, rawC, props, value, at) ==
    LET su == Lower(rawS)
        cu == Lower(rawC)
        v == IF value = None THEN "" ELSE value
        rec == [Idle EXCEPT !.op = "add_new_characteristic", !.pc = "add_characteristic",
                            !.su = su, !.cu = cu, !.pre = PreOf(su, cu, at)]
    IN  /\ \E r \in AppAddCharacteristic(appServices, su, cu, v, FromBless(props)) :
              /\ r.err # "UnknownService"
              /\ appServices' = r.services
              /\ Suspend(t, [rec EXCEPT !.path =
                    IF r.err = "" THEN r.path
                    ELSE LET i == IndexOf(appServices, su)
                         IN  <<i, IndexOf(appServices[i].characteristics, cu)>>])
        /\ UNCHANGED <<appRejectsDuplicates, setup, services, registered, advertising, subscribed, signalVars>>

\* add_new_characteristic that mirrors the characteristic into self.services
\* before the application has accepted it
AddNewCharacteristicBodyMirrorFirst(t, rawS, rawC, props, value, at) ==
    LET flags == FromBless(props)
        su == Lower(rawS)
        cu == Lower(rawC)
        v == IF value = None THEN "" ELSE value
        rec == [Idle EXCEPT !.op = "add_new_characteristic", !.pc = "add_characteristic",
                            !.su = su, !.cu = cu, !.pre = PreOf(su, cu, at)]
        mirrored == DictSet(services,
                        [uuid |-> su,
                         characteristics |-> <<[uuid |-> cu, value |-> v, flags |-> flags]>>])
    IN  /\ \E r \in AppAddCharacteristic(appServices, su, cu, v, flags) :
              /\ appServices' = r.services
              /\ services' = IF r.err = "" THEN services ELSE mirrored
              /\ IF r.err = ""
                 THEN Suspend(t, [rec EXCEPT !.path = r.path])
                 ELSE Finish(t, [rec EXCEPT !.value = v], r.err, <<services, appServices>>)
        /\ UNCHANGED <<appRejectsDuplicates, setup, registered, advertising, subscribed, signalVars>>

\* lines 197-213: flags, normalised uuids, b"" for None, then the application
\* gets the characteristic
AddNewCharacteristicBody(t, rawS, rawC, props, value, at) ==
    LET flags == FromBless(props)
        su == Lower(rawS)
        cu == Lower(rawC)
        v == IF value = None THEN "" ELSE value
        rec == [Idle EXCEPT !.op = "add_new_characteristic", !.pc = "add_characteristic",
                            !.su = su, !.cu = cu, !.pre = PreOf(su, cu, at)]
    IN  /\ \E r \in AppAddCharacteristic(appServices, su, cu, v, flags) :
              /\ appServices' = r.services
              /\ IF r.err = ""
                 THEN Suspend(t, [rec EXCEPT !.path = r.path])
                 ELSE Finish(t, [rec EXCEPT !.value = v], r.err,
                             <<services, appServices>>)
        /\ UNCHANGED <<appRejectsDuplicates, setup, services, registered,
                       advertising, subscribed, signalVars>>

CallAddNewCharacteristic(t, rawS, rawC, props, value) ==
    /\ tasks[t].op = "idle"
    /\ IF setup = "done"
       THEN AddNewCharacteristicBody(t, rawS, rawC, props, value, setup)
       ELSE /\ AwaitSetup(t, [Parked("add_new_characteristic") EXCEPT
                                !.su = rawS, !.cu = rawC, !.props = props,
                                !.value = value])
            /\ UNCHANGED <<appRejectsDuplicates, setup, services, appServices, registered, advertising, subscribed, signalVars>>

ResumeAddNewCharacteristic(t) ==
    /\ tasks[t].op = "add_new_characteristic"
    /\ tasks[t].pc = "setup"
    /\ setup = "done"
    /\ AddNewCharacteristicBody(t, tasks[t].su, tasks[t].cu, tasks[t].props,
                                tasks[t].value, tasks[t].pre.setup)

\* line 211 returns; line 214 asks the bus for the remote object
AddCharacteristicReply(t) ==
    /\ tasks[t].op = "add_new_characteristic"
    /\ tasks[t].pc = "add_characteristic"
    /\ Suspend(t, [tasks[t] EXCEPT !.pc = "getRemoteObject"])
    /\ UNCHANGED <<appRejectsDuplicates, setup, services, appServices, registered,
                   advertising, subscribed, signalVars>>

\* line 214 returns; line 217 asks the object for its properties
AddCharacteristicRemoteObject(t) ==
    /\ tasks[t].op = "add_new_characteristic"
    /\ tasks[t].pc = "getRemoteObject"
    /\ Suspend(t, [tasks[t] EXCEPT !.pc = "GetAll"])
    /\ UNCHANGED <<appRejectsDuplicates, setup, services, appServices, registered,
                   advertising, subscribed, signalVars>>

\* lines 217-229: the properties of gatt_char, the characteristic that line 211
\* returned to this call, arrive; the characteristic joins its service in
\* self.services (a KeyError when the service is not there)
AddCharacteristicGetAll(t) ==
    /\ tasks[t].op = "add_new_characteristic"
    /\ tasks[t].pc = "GetAll"
    /\ LET dictObj == appServices[tasks[t].path[1]].characteristics[tasks[t].path[2]]
           i == IndexOf(services, tasks[t].su)
       IN  IF i = 0
           THEN /\ services' = services
                /\ Finish(t, tasks[t], "KeyError", <<>>)
           ELSE /\ \E char \in BleakCharacteristic(dictObj) :
                      services' = [services EXCEPT ![i].characteristics = Append(@, char)]
                /\ Finish(t, tasks[t], "None", <<>>)
    /\ UNCHANGED <<appRejectsDuplicates, setup, appServices, registered,
                   advertising, subscribed, signalVars>>

(***************************************************************************)
(* update_value and the application's direct use of a characteristic      *)
(***************************************************************************)
\* update_value(service_uuid, char_uuid), lines 252-282, on the facade map svcs
\* and the application graph app: what the caller gets and the graph after it
UpdateValue(svcs, app, su, cu) ==
    LET i == IndexOf(svcs, su) IN
    IF i = 0 THEN [result |-> "KeyError", app |-> app]
    ELSE LET k == IndexOf(svcs[i].characteristics, cu) IN
    IF k = 0 THEN [result |-> "False", app |-> app]
    ELSE IF ~HasValue(svcs[i].characteristics[k])
    THEN [result |-> "False", app |-> app]
    ELSE LET curValue == svcs[i].characteristics[k].value
             ai == IndexOf(app, su)
         IN
    IF ai = 0 THEN [result |-> "StopIteration", app |-> app]
    ELSE LET ak == IndexOf(app[ai].characteristics, cu) IN
    IF ak = 0 THEN [result |-> "AttributeError", app |-> app]
    ELSE [result |-> "None", app |-> SetCharValue(app, ai, ak, curValue)]

CallUpdateValue(su, cu) ==
    LET r == UpdateValue(services, appServices, su, cu) IN
    /\ appServices' = r.app
    /\ last' = [NoObs EXCEPT !.op = "update_value", !.su = su, !.cu = cu,
                             !.result = r.result,
                             !.before = <<services, appServices>>]
    /\ UNCHANGED <<appRejectsDuplicates, setup, services, registered, advertising,
                   subscribed, tasks, signalVars>>

\* the application assigns characteristic.value itself: no notification
SetValue(i, k, v) ==
    /\ i \in DOMAIN services
    /\ k \in DOMAIN services[i].characteristics
    /\ ValueOf(services[i].characteristics[k]) # v
    /\ services' = SetCharValue(services, i, k, v)
    /\ last' = NoObs
    /\ UNCHANGED <<appRejectsDuplicates, setup, appServices, registered, advertising,
                   subscribed, tasks, signalVars>>

\* the application deletes characteristic.value: the entity object of
\* self.services is left without a value to read
DelValue(i, k) ==
    /\ i \in DOMAIN services
    /\ k \in DOMAIN services[i].characteristics
    /\ HasValue(services[i].characteristics[k])
    /\ services' = [services EXCEPT ![i].characteristics[k] =
                        [uuid |-> @.uuid, flags |-> @.flags]]
    /\ last' = NoObs
    /\ UNCHANGED <<appRejectsDuplicates, setup, appServices, registered, advertising,
                   subscribed, tasks, signalVars>>

(***************************************************************************)
(* Inbound events of the registered application                            *)
(***************************************************************************)
\* what a handler of the application does instead of returning: it raises
HandlerError == "HandlerError"

\* read handlers: for the uuid, the bytes the handler returns, or its failure
ReadHandlers == [{"c3"} -> Values \cup {HandlerError}]

\* BaseBlessServer.read_request(uuid): find the characteristic, ask the handler
ReadRequest(svcs, u, handler) ==
    IF Locate(svcs, u) = <<0, 0>>
    THEN [reply |-> "UnknownCharacteristic", handler |-> <<>>]
    ELSE [reply |-> handler[u], handler |-> <<u>>]

\* what the application object hands to the bus for the outcome of Read or
\* Write: a failure becomes the generic failure reply
NativeReply(outcome) == IF outcome = HandlerError THEN "Failed" ELSE outcome

\* read that answers with the value the application graph stores
ReadStoredValue(svcs, char, handler) == [reply |-> char.value, handler |-> <<>>]

\* read that hides a failure of the handler behind the stored value
ReadMaskingFailure(svcs, char, handler) ==
    LET r == ReadRequest(svcs, char.uuid, handler)
    IN  IF r.reply = HandlerError THEN [r EXCEPT !.reply = char.value] ELSE r

\* read(char), line 300
Read(svcs, char, handler) == ReadRequest(svcs, char.uuid, handler)

ReadEvent(ai, ak, handler) ==
    /\ registered
    /\ ai \in DOMAIN appServices
    /\ ak \in DOMAIN appServices[ai].characteristics
    /\ LET char == appServices[ai].characteristics[ak]
           r == Read(services, char, handler)
       IN  last' = [NoObs EXCEPT !.op = "read", !.su = appServices[ai].uuid,
                                 !.cu = char.uuid, !.value = handler[char.uuid],
                                 !.result = NativeReply(r.reply), !.handler = r.handler,
                                 !.raised = (r.handler # <<>> /\ handler[char.uuid] = HandlerError),
                                 !.before = <<services, appServices>>]
    /\ UNCHANGED <<appRejectsDuplicates, setup, services, appServices, registered,
                   advertising, subscribed, tasks, signalVars>>

\* what a write handler does: commit the value, leave it, or fail
WriteHandlers == {"commit", "keep", HandlerError}

\* BaseBlessServer.write_request(uuid, value): the handler gets (uuid, value).
\* A committing handler stores the value in the characteristic it finds under
\* the uuid and calls update_value for it; a handler may also do nothing, or
\* fail before it has stored anything.
WriteRequest(svcs, app, u, value, handler) ==
    LET loc == Locate(svcs, u) IN
    IF handler = "commit" /\ loc # <<0, 0>>
    THEN LET stored == SetCharValue(svcs, loc[1], loc[2], value)
         IN  [handler |-> <<u, value>>, services |-> stored,
              app |-> UpdateValue(stored, app, stored[loc[1]].uuid, u).app,
              outcome |-> "None"]
    ELSE [handler |-> <<u, value>>, services |-> svcs, app |-> app,
          outcome |-> IF handler = HandlerError THEN HandlerError ELSE "None"]

\* write that hands the handler the stored value instead of the payload
WriteStoredValue(svcs, app, char, value, handler) ==
    WriteRequest(svcs, app, char.uuid, char.value, handler)

\* write that stores the payload itself, whatever the handler does
WriteAutoCommit(svcs, app, char, value, handler) ==
    LET r == WriteRequest(svcs, app, char.uuid, value, "commit")
    IN  [r EXCEPT !.outcome = IF handler = HandlerError THEN HandlerError ELSE "None"]

\* write(char, value), line 316
Write(svcs, app, char, value, handler) == WriteRequest(svcs, app, char.uuid, value, handler)

WriteEvent(ai, ak, value, handler) ==
    /\ registered
    /\ ai \in DOMAIN appServices
    /\ ak \in DOMAIN appServices[ai].characteristics
    /\ LET char == appServices[ai].characteristics[ak]
           r == Write(services, appServices, char, value, handler)
       IN  /\ services' = r.services
           /\ appServices' = r.app
           /\ last' = [NoObs EXCEPT !.op = "write", !.su = appServices[ai].uuid,
                                    !.cu = char.uuid, !.value = value,
                                    !.result = NativeReply(r.outcome),
                                    !.handler = r.handler,
                                    !.commit = (handler = "commit"),
                                    !.raised = (handler = HandlerError),
                                    !.before = IF handler = "commit" THEN <<>>
                                               ELSE <<services, appServices>>]
    /\ UNCHANGED <<appRejectsDuplicates, setup, registered, advertising, subscribed,
                   tasks, signalVars>>

\* a central subscribes: self.app.StartNotify is a no-op of the facade (line 75)
StartNotify(ai, ak) ==
    /\ registered
    /\ ai \in DOMAIN appServices
    /\ ak \in DOMAIN appServices[ai].characteristics
    /\ LET pair == <<appServices[ai].uuid, appServices[ai].characteristics[ak].uuid>>
       IN  /\ pair \notin subscribed
           /\ subscribed' = subscribed \cup {pair}
    /\ last' = NoObs
    /\ UNCHANGED <<appRejectsDuplicates, setup, services, appServices, registered,
                   advertising, tasks, signalVars>>

\* a central unsubscribes: self.app.StopNotify is a no-op of the facade (line 76)
StopNotify(pair) ==
    /\ registered
    /\ pair \in subscribed
    /\ subscribed' = subscribed \ {pair}
    /\ last' = NoObs
    /\ UNCHANGED <<appRejectsDuplicates, setup, services, appServices, registered,
                   advertising, tasks, signalVars>>

(***************************************************************************)
(* is_connected, disconnect, the connected and disconnected callbacks      *)
(***************************************************************************)
\* self.bus and self.app exist from line 62 and line 67 on, self.adapter once
\* line 78 has returned
HasBus == setup \notin {"connect", "TransportUnavailable"}

\* an operation returns to its caller after a call to the bus
FinishNative(t, result, native) ==
    /\ tasks' = [tasks EXCEPT ![t] = Idle]
    /\ last' = [NoObs EXCEPT !.op = tasks[t].op, !.value = tasks[t].value,
                             !.result = result, !.issued = tasks[t].issued,
                             !.pre = tasks[t].pre, !.native = native]

\* an operation returns to its caller before it has reached an await
Return(op, value, result) ==
    /\ tasks' = tasks
    /\ last' = [NoObs EXCEPT !.op = op, !.value = value, !.result = result,
                             !.pre = PreOf("", "", setup)]

\* is_connected, line 129: ask the application, which exists once the bus does
CallIsConnected(t) ==
    /\ tasks[t].op = "idle"
    /\ IF HasBus
       THEN Suspend(t, [Idle EXCEPT !.op = "is_connected", !.pc = "is_connected",
                                    !.pre = PreOf("", "", setup),
                                    !.issued = <<"is_connected">>])
       ELSE Return("is_connected", "", "AttributeError")
    /\ UNCHANGED <<appRejectsDuplicates, setup, services, appServices, registered,
                   advertising, subscribed, signalVars>>

\* the application answers: true iff a central holds a connection
IsConnectedReply(t) ==
    /\ tasks[t].op = "is_connected"
    /\ tasks[t].pc = "is_connected"
    /\ FinishNative(t, IF centrals # {} THEN "True" ELSE "False", "ok")
    /\ UNCHANGED <<appRejectsDuplicates, setup, services, appServices, registered,
                   advertising, subscribed, signalVars>>

\* disconnect(device_mac), lines 328-337: the try block asks the bus to call
\* Disconnect on the device; without a bus the AttributeError is caught
CallDisconnect(t, peer) ==
    /\ tasks[t].op = "idle"
    /\ IF HasBus
       THEN Suspend(t, [Idle EXCEPT !.op = "disconnect", !.pc = "callRemote",
                                    !.value = peer, !.pre = PreOf("", "", setup),
                                    !.issued = <<"callRemote">>])
       ELSE Return("disconnect", peer, "False")
    /\ UNCHANGED <<appRejectsDuplicates, setup, services, appServices, registered,
                   advertising, subscribed, signalVars>>

\* disconnect that lets the error of the bus call reach its caller
DisconnectReplyRaising(t, ok) ==
    /\ tasks[t].op = "disconnect"
    /\ tasks[t].pc = "callRemote"
    /\ ok => tasks[t].value \in centrals
    /\ FinishNative(t, IF ok THEN "True" ELSE "NativeOperationFailed",
                       IF ok THEN "ok" ELSE "error")
    /\ UNCHANGED <<appRejectsDuplicates, setup, services, appServices, registered,
                   advertising, subscribed, signalVars>>

\* lines 338-342: the bus call returned (True) or raised (caught, False); the
\* call succeeds only for a device that is connected
DisconnectReply(t, ok) ==
    /\ tasks[t].op = "disconnect"
    /\ tasks[t].pc = "callRemote"
    /\ ok => tasks[t].value \in centrals
    /\ FinishNative(t, IF ok THEN "True" ELSE "False", IF ok THEN "ok" ELSE "error")
    /\ UNCHANGED <<appRejectsDuplicates, setup, services, appServices, registered,
                   advertising, subscribed, signalVars>>

\* the addMatch calls that have been sent to the bus and not answered yet
PendingMatches == Cardinality({t \in DOMAIN tasks : tasks[t].pc = "addMatch"})

\* set_connected_callback that stores its argument before it has looked at it
CallSetConnectedCallbackUnchecked(t, callback_function) ==
    /\ tasks[t].op = "idle"
    /\ connected_callback' = callback_function
    /\ IF callback_function = NotCallable \/ ~HasBus
       THEN Return("set_connected_callback", callback_function, "False")
       ELSE /\ Len(matches) + PendingMatches < MaxMatches
            /\ Suspend(t, [Idle EXCEPT !.op = "set_connected_callback", !.pc = "addMatch",
                                       !.value = callback_function,
                                       !.pre = PreOf("", "", setup),
                                       !.issued = <<"addMatch">>])
    /\ UNCHANGED <<appRejectsDuplicates, setup, services, appServices, registered, advertising,
                   subscribed, disconnected_callback, matches, centrals>>

\* set_connected_callback, lines 353-364: an argument that is not callable is
\* refused; a callable is stored in the slot, then the bus is asked for a match
\* on InterfacesAdded (without a bus the AttributeError is caught)
CallSetConnectedCallback(t, callback_function) ==
    /\ tasks[t].op = "idle"
    /\ IF callback_function = NotCallable
       THEN /\ Return("set_connected_callback", callback_function, "False")
            /\ connected_callback' = connected_callback
       ELSE /\ connected_callback' = callback_function
            /\ IF HasBus
               THEN /\ Len(matches) + PendingMatches < MaxMatches
                    /\ Suspend(t, [Idle EXCEPT !.op = "set_connected_callback",
                                               !.pc = "addMatch",
                                               !.value = callback_function,
                                               !.pre = PreOf("", "", setup),
                                               !.issued = <<"addMatch">>])
               ELSE Return("set_connected_callback", callback_function, "False")
    /\ UNCHANGED <<appRejectsDuplicates, setup, services, appServices, registered, advertising,
                   subscribed, disconnected_callback, matches, centrals>>

\* lines 365-369: the bus took the match (True) or the call raised (False)
SetConnectedCallbackReply(t, ok) ==
    /\ tasks[t].op = "set_connected_callback"
    /\ tasks[t].pc = "addMatch"
    /\ matches' = IF ok THEN Append(matches, <<"InterfacesAdded", tasks[t].value>>)
                        ELSE matches
    /\ FinishNative(t, IF ok THEN "True" ELSE "False", IF ok THEN "ok" ELSE "error")
    /\ UNCHANGED <<appRejectsDuplicates, setup, services, appServices, registered, advertising,
                   subscribed, connected_callback, disconnected_callback, centrals>>

\* set_disconnected_callback, lines 380-391
CallSetDisconnectedCallback(t, callback_function) ==
    /\ tasks[t].op = "idle"
    /\ IF callback_function = NotCallable
       THEN /\ Return("set_disconnected_callback", callback_function, "False")
            /\ disconnected_callback' = disconnected_callback
       ELSE /\ disconnected_callback' = callback_function
            /\ IF HasBus
               THEN /\ Len(matches) + PendingMatches < MaxMatches
                    /\ Suspend(t, [Idle EXCEPT !.op = "set_disconnected_callback",
                                               !.pc = "addMatch",
                                               !.value = callback_function,
                                               !.pre = PreOf("", "", setup),
                                               !.issued = <<"addMatch">>])
               ELSE Return("set_disconnected_callback", callback_function, "False")
    /\ UNCHANGED <<appRejectsDuplicates, setup, services, appServices, registered, advertising,
                   subscribed, connected_callback, matches, centrals>>

\* lines 392-396
SetDisconnectedCallbackReply(t, ok) ==
    /\ tasks[t].op = "set_disconnected_callback"
    /\ tasks[t].pc = "addMatch"
    /\ matches' = IF ok THEN Append(matches, <<"InterfacesRemoved", tasks[t].value>>)
                        ELSE matches
    /\ FinishNative(t, IF ok THEN "True" ELSE "False", IF ok THEN "ok" ELSE "error")
    /\ UNCHANGED <<appRejectsDuplicates, setup, services, appServices, registered, advertising,
                   subscribed, connected_callback, disconnected_callback, centrals>>

\* the callbacks the bus delivers a signal of that member to: one per match,
\* in the order the matches were added
Delivered(member) ==
    LET Test(m) == m[1] = member
        own == SelectSeq(matches, Test)
    IN  [i \in 1..Len(own) |-> own[i][2]]

\* a central connects: the object manager emits InterfacesAdded
CentralConnects(peer) ==
    /\ peer \notin centrals
    /\ centrals' = centrals \cup {peer}
    /\ last' = [NoObs EXCEPT !.op = "InterfacesAdded", !.value = peer,
                             !.invoked = Delivered("InterfacesAdded")]
    /\ UNCHANGED <<appRejectsDuplicates, setup, services, appServices, registered, advertising,
                   subscribed, tasks, connected_callback, disconnected_callback,
                   matches>>

\* a central is gone: the object manager emits InterfacesRemoved
CentralDisconnects(peer) ==
    /\ peer \in centrals
    /\ centrals' = centrals \ {peer}
    /\ last' = [NoObs EXCEPT !.op = "InterfacesRemoved", !.value = peer,
                             !.invoked = Delivered("InterfacesRemoved")]
    /\ UNCHANGED <<appRejectsDuplicates, setup, services, appServices, registered, advertising,
                   subscribed, tasks, connected_callback, disconnected_callback,
                   matches>>

(***************************************************************************)
(* The server                                                              *)
(***************************************************************************)
Next ==
    \/ SetupConnect
    \/ SetupAdapter
    \/ \E t \in DOMAIN tasks : CallStart(t)
    \/ \E t \in DOMAIN tasks : ResumeStart(t)
    \/ \E t \in DOMAIN tasks : StartBusNameReply(t)
    \/ \E t \in DOMAIN tasks : StartRegisterReply(t)
    \/ \E t \in DOMAIN tasks : StartAdvertiseReply(t)
    \/ \E t \in DOMAIN tasks, raw \in RawServiceUuids : CallAddNewService(t, raw)
    \/ \E t \in DOMAIN tasks : ResumeAddNewService(t)
    \/ \E t \in DOMAIN tasks : AddServiceReply(t)
    \/ \E t \in DOMAIN tasks : AddServiceRemoteObject(t)
    \/ \E t \in DOMAIN tasks : AddServiceGetAll(t)
    \/ \E t \in DOMAIN tasks, rawS \in RawServiceUuids, rawC \in RawCharUuids,
          props \in PropertySets, value \in ValuesOrNone :
            CallAddNewCharacteristic(t, rawS, rawC, props, value)
    \/ \E t \in DOMAIN tasks : ResumeAddNewCharacteristic(t)
    \/ \E t \in DOMAIN tasks : AddCharacteristicReply(t)
    \/ \E t \in DOMAIN tasks : AddCharacteristicRemoteObject(t)
    \/ \E t \in DOMAIN tasks : AddCharacteristicGetAll(t)
    \/ \E su \in RawServiceUuids, cu \in RawCharUuids : CallUpdateValue(su, cu)
    \/ \E i \in ServiceSlots, k \in CharSlots, v \in Values : SetValue(i, k, v)
    \/ \E i \in ServiceSlots, k \in CharSlots : DelValue(i, k)
    \/ \E ai \in ServiceSlots, ak \in CharSlots, handler \in ReadHandlers :
            ReadEvent(ai, ak, handler)
    \/ \E ai \in ServiceSlots, ak \in CharSlots, value \in Values,
          handler \in WriteHandlers :
            WriteEvent(ai, ak, value, handler)

Spec == Init /\ [][Next]_vars

\* the part of the server that deals with advertising and subscriptions:
\* setup and its failures, start, stop, is_advertising, the services and
\* characteristics to advertise, subscribers and update_value
NextAdvertising ==
    \/ SetupConnect
    \/ SetupAdapter
    \/ SetupConnectFails
    \/ SetupAdapterFails
    \/ \E t \in DOMAIN tasks : SetupFailed(t)
    \/ \E t \in DOMAIN tasks : CallStart(t)
    \/ \E t \in DOMAIN tasks : ResumeStart(t)
    \/ \E t \in DOMAIN tasks : StartBusNameReply(t)
    \/ \E t \in DOMAIN tasks : StartRegisterReply(t)
    \/ \E t \in DOMAIN tasks : StartAdvertiseReply(t)
    \/ \E t \in DOMAIN tasks : CallStop(t)
    \/ \E t \in DOMAIN tasks : StopAdvertiseReply(t)
    \/ \E t \in DOMAIN tasks : StopUnregisterReply(t)
    \/ \E t \in DOMAIN tasks : CallIsAdvertising(t)
    \/ \E t \in DOMAIN tasks : ResumeIsAdvertising(t)
    \/ \E t \in DOMAIN tasks : IsAdvertisingReply(t)
    \/ \E t \in DOMAIN tasks, raw \in RawServiceUuids : CallAddNewService(t, raw)
    \/ \E t \in DOMAIN tasks : ResumeAddNewService(t)
    \/ \E t \in DOMAIN tasks : AddServiceReply(t)
    \/ \E t \in DOMAIN tasks : AddServiceRemoteObject(t)
    \/ \E t \in DOMAIN tasks : AddServiceGetAll(t)
    \/ \E t \in DOMAIN tasks, rawS \in RawServiceUuids, rawC \in RawCharUuids,
          props \in PropertySets, value \in ValuesOrNone :
            CallAddNewCharacteristic(t, rawS, rawC, props, value)
    \/ \E t \in DOMAIN tasks : ResumeAddNewCharacteristic(t)
    \/ \E t \in DOMAIN tasks : AddCharacteristicReply(t)
    \/ \E t \in DOMAIN tasks : AddCharacteristicRemoteObject(t)
    \/ \E t \in DOMAIN tasks : AddCharacteristicGetAll(t)
    \/ \E su \in RawServiceUuids, cu \in RawCharUuids : CallUpdateValue(su, cu)
    \/ \E ai \in ServiceSlots, ak \in CharSlots : StartNotify(ai, ak)
    \/ \E pair \in subscribed : StopNotify(pair)

SpecAdvertising == Init /\ [][NextAdvertising]_vars

\* the part of the server that deals with connections: setup, stop, the
\* queries and requests about centrals, the callbacks and the signals
NextSignals ==
    \/ SetupConnect
    \/ SetupAdapter
    \/ SetupConnectFails
    \/ SetupAdapterFails
    \/ \E t \in DOMAIN tasks : CallStop(t)
    \/ \E t \in DOMAIN tasks : StopAdvertiseReply(t)
    \/ \E t \in DOMAIN tasks : StopUnregisterReply(t)
    \/ \E t \in DOMAIN tasks : CallIsConnected(t)
    \/ \E t \in DOMAIN tasks : IsConnectedReply(t)
    \/ \E t \in DOMAIN tasks, peer \in Peers : CallDisconnect(t, peer)
    \/ \E t \in DOMAIN tasks, ok \in BOOLEAN : DisconnectReply(t, ok)
    \/ \E t \in DOMAIN tasks, fn \in Callbacks \cup {NotCallable} :
            CallSetConnectedCallback(t, fn)
    \/ \E t \in DOMAIN tasks, ok \in BOOLEAN : SetConnectedCallbackReply(t, ok)
    \/ \E t \in DOMAIN tasks, fn \in Callbacks \cup {NotCallable} :
            CallSetDisconnectedCallback(t, fn)
    \/ \E t \in DOMAIN tasks, ok \in BOOLEAN : SetDisconnectedCallbackReply(t, ok)
    \/ \E peer \in Peers : CentralConnects(peer)
    \/ \E peer \in Peers : CentralDisconnects(peer)

SpecSignals == Init /\ [][NextSignals]_vars

\* two callers that add one service and one characteristic to it, in every
\* interleaving of their awaits
InitConcurrent ==
    /\ setup = "connect"
    /\ services = <<>>
    /\ appServices = <<>>
    /\ registered = FALSE
    /\ advertising = FALSE
    /\ subscribed = {}
    /\ tasks = [t \in ConcurrentTasks |-> Idle]
    /\ last = NoObs
    /\ connected_callback = DefaultCallback
    /\ disconnected_callback = DefaultCallback
    /\ matches = <<>>
    /\ centrals = {}
    /\ appRejectsDuplicates = TRUE

NextConcurrent ==
    \/ SetupConnect
    \/ SetupAdapter
    \/ \E t \in DOMAIN tasks, raw \in {"a1", "A1"} : CallAddNewService(t, raw)
    \/ \E t \in DOMAIN tasks : ResumeAddNewService(t)
    \/ \E t \in DOMAIN tasks : AddServiceReply(t)
    \/ \E t \in DOMAIN tasks : AddServiceRemoteObject(t)
    \/ \E t \in DOMAIN tasks : AddServiceGetAll(t)
    \/ \E t \in DOMAIN tasks, rawC \in RawCharUuids, value \in Values :
            CallAddNewCharacteristic(t, "a1", rawC, {2}, value)
    \/ \E t \in DOMAIN tasks : ResumeAddNewCharacteristic(t)
    \/ \E t \in DOMAIN tasks : AddCharacteristicReply(t)
    \/ \E t \in DOMAIN tasks : AddCharacteristicRemoteObject(t)
    \/ \E t \in DOMAIN tasks : AddCharacteristicGetAll(t)

SpecConcurrent == InitConcurrent /\ [][NextConcurrent]_vars

\* two callers that add a service, start and stop the server, in every
\* interleaving of their awaits
NextLifecycle ==
    \/ SetupConnect
    \/ SetupAdapter
    \/ \E t \in DOMAIN tasks : CallAddNewService(t, "a1")
    \/ \E t \in DOMAIN tasks : ResumeAddNewService(t)
    \/ \E t \in DOMAIN tasks : AddServiceReply(t)
    \/ \E t \in DOMAIN tasks : AddServiceRemoteObject(t)
    \/ \E t \in DOMAIN tasks : AddServiceGetAll(t)
    \/ \E t \in DOMAIN tasks : CallStart(t)
    \/ \E t \in DOMAIN tasks : ResumeStart(t)
    \/ \E t \in DOMAIN tasks : StartBusNameReply(t)
    \/ \E t \in DOMAIN tasks : StartRegisterReply(t)
    \/ \E t \in DOMAIN tasks : StartAdvertiseReply(t)
    \/ \E t \in DOMAIN tasks : CallStop(t)
    \/ \E t \in DOMAIN tasks : StopAdvertiseReply(t)
    \/ \E t \in DOMAIN tasks : StopUnregisterReply(t)

SpecLifecycle == InitConcurrent /\ [][NextLifecycle]_vars

(***************************************************************************)
(* Properties                                                              *)
(***************************************************************************)
\* C1: update_value on a characteristic that is registered in the server and
\* has no subscriber returns true.
C1_UpdateValueReturnsTrue ==
    ( /\ last.op = "update_value"
      /\ <<last.su, last.cu>> \in Pairs(services)
      /\ <<last.su, last.cu>> \notin subscribed )
    => last.result = "True"

\* C2: update_value on a service uuid or characteristic uuid that is not
\* registered returns false and changes neither self.services nor the
\* application graph.
C2_UnregisteredReturnsFalse ==
    ( /\ last.op = "update_value"
      /\ <<last.su, last.cu>> \notin Pairs(services) )
    => ( /\ last.result = "False"
         /\ last.before = <<services, appServices>> )

\* C3: add_new_service for a uuid that self.services already holds fails with
\* DuplicateService, and self.services (keys, the service stored under the
\* uuid, its characteristics) and the application graph are as before the call.
C3_DuplicateServiceRejected ==
    ( /\ last.op = "add_new_service"
      /\ last.pre.svc )
    => ( /\ last.result = "DuplicateService"
         /\ last.before = <<services, appServices>> )

\* a second add_new_service for a service that holds a characteristic was rejected
C3_Witness ==
    /\ last.op = "add_new_service"
    /\ last.pre.svc
    /\ last.result = "DuplicateService"
    /\ Has(services, last.su)
    /\ services[IndexOf(services, last.su)].characteristics # <<>>

\* C4: add_new_characteristic for a (service, characteristic) pair that
\* self.services already holds fails with DuplicateCharacteristic; the first
\* characteristic is still the one get_characteristic returns, with its value
\* and flags, and the service holds exactly one characteristic of that uuid.
C4_DuplicateCharacteristicRejected ==
    ( /\ last.op = "add_new_characteristic"
      /\ last.pre.chr )
    => ( /\ last.result = "DuplicateCharacteristic"
         /\ last.before = <<services, appServices>>
         /\ Has(services, last.su)
         /\ LET service == services[IndexOf(services, last.su)]
                was == last.before[1][IndexOf(last.before[1], last.su)]
            IN  /\ Has(service.characteristics, last.cu)
                /\ GetCharacteristic(service, last.cu) = GetCharacteristic(was, last.cu)
                /\ Cardinality({k \in DOMAIN service.characteristics :
                                    service.characteristics[k].uuid = last.cu}) = 1 )

\* the rejected second call carried another value than the one the first
\* characteristic holds
C4_Witness ==
    /\ last.op = "add_new_characteristic"
    /\ last.pre.chr
    /\ last.result = "DuplicateCharacteristic"
    /\ ValueOf(GetCharacteristic(services[IndexOf(services, last.su)], last.cu)) # last.value

\* C5: add_new_characteristic for a service uuid that was never added fails
\* (on a server whose setup has not failed, C18) with
\* UnknownService, and neither self.services nor the application graph holds the
\* new characteristic or has changed.
C5_UnknownServiceRejected ==
    ( /\ last.op = "add_new_characteristic"
      /\ setup = "done"
      /\ ~last.pre.svc
      /\ ~last.pre.appSvc )
    => ( /\ last.result = "UnknownService"
         /\ last.before = <<services, appServices>>
         /\ <<last.su, last.cu>> \notin Pairs(services) \cup Pairs(appServices) )

\* the call was rejected on a server that holds another service
C5_Witness ==
    /\ last.op = "add_new_characteristic"
    /\ ~last.pre.svc
    /\ ~last.pre.appSvc
    /\ last.result = "UnknownService"
    /\ services # <<>>

\* C6: an inbound read of a registered characteristic is answered with what
\* the read handler returns for the characteristic's uuid, not with the stored
\* value; the handler is invoked with that uuid; the read stores nothing. (A
\* handler that fails returns nothing: C19.)
C6_ReadDispatch ==
    ( /\ last.op = "read"
      /\ <<last.su, last.cu>> \in Pairs(services)
      /\ ~last.raised )
    => ( /\ last.result = last.value
         /\ last.handler = <<last.cu>>
         /\ last.before = <<services, appServices>> )

\* the handler's answer differs from the value stored in self.services and in
\* the application graph
C6_Witness ==
    /\ last.op = "read"
    /\ <<last.su, last.cu>> \in Pairs(services)
    /\ last.result = last.value
    /\ ValueOf(GetCharacteristic(services[IndexOf(services, last.su)], last.cu)) # last.value
    /\ GetCharacteristic(appServices[IndexOf(appServices, last.su)], last.cu).value
            # last.value

\* C7: on an inbound write with payload P the write handler is invoked with
\* exactly (uuid, P); when the handler commits (stores P in the characteristic
\* it finds under the uuid and calls update_value), that characteristic holds P
\* afterwards in self.services and in the application graph.
C7_WriteDispatch ==
    last.op = "write"
    => ( /\ last.handler = <<last.cu, last.value>>
         /\ LET loc == Locate(services, last.cu) IN
            (last.commit /\ loc # <<0, 0>>)
            => LET su == services[loc[1]].uuid IN
               /\ ValueOf(services[loc[1]].characteristics[loc[2]]) = last.value
               /\ Has(appServices, su)
               /\ Has(appServices[IndexOf(appServices, su)].characteristics, last.cu)
               /\ GetCharacteristic(appServices[IndexOf(appServices, su)], last.cu).value
                    = last.value )

\* a committed write on the characteristic the handler finds, with a payload
\* other than the empty initial value
C7_Witness ==
    /\ last.op = "write"
    /\ last.commit
    /\ last.value = "01"
    /\ Locate(services, last.cu) # <<0, 0>>
    /\ services[Locate(services, last.cu)[1]].uuid = last.su

\* C8: once start has returned True the server advertises, and it goes on
\* advertising until a stop is under way; once stop has returned True the server
\* does not advertise; is_advertising, unless setup has failed (C18), answers
\* with the advertising state.
C8_StateAfterCall ==
    /\ (last.op = "start" /\ last.result = "True") => advertising
    /\ (last.op = "stop" /\ last.result = "True") => ~advertising
    /\ (last.op = "is_advertising" /\ last.result \notin SetupErrors)
        => last.result = (IF advertising THEN "True" ELSE "False")

C8_AdvertisingLifecycle ==
    /\ []C8_StateAfterCall
    /\ [][ (advertising /\ ~advertising')
            => \E t \in DOMAIN tasks :
                    tasks[t].op = "stop" /\ tasks[t].pc = "stop_advertising" ]_vars

\* stop has returned True on a server with a characteristic that advertised
\* when stop was called
C8_Witness ==
    /\ last.op = "stop"
    /\ last.result = "True"
    /\ last.pre.advertising
    /\ Pairs(services) # {}
    /\ ~advertising

\* C9: start on an advertising server, and stop on a server that does not
\* advertise, return True without a call to the native stack and leave the
\* advertising state as it was (calls made once setup is done).
C9_IdempotentNoOp ==
    ( /\ last.op \in {"start", "stop"}
      /\ last.pre.setup = "done"
      /\ last.pre.advertising = (last.op = "start") )
    => ( /\ last.result = "True"
         /\ last.issued = <<>>
         /\ advertising = last.pre.advertising )

\* C10: start on a server without a service fails with NothingToAdvertise, and
\* the application is neither registered nor advertised.
C10_NothingToAdvertise ==
    ( /\ last.op = "start"
      /\ last.pre.empty )
    => ( /\ last.result = "NothingToAdvertise"
         /\ ~registered
         /\ ~advertising )

\* C11: an operation of the server that is called before setup has finished
\* waits for it: it returns only once setup is done (or with the error setup
\* ended with), and no call to the bus, the application or the adapter is
\* under way before setup is done.
C11_OperationsAwaitSetup ==
    /\ ( /\ last.op \in {"start", "stop", "is_connected", "is_advertising",
                         "add_new_service", "add_new_characteristic", "update_value",
                         "disconnect", "set_connected_callback",
                         "set_disconnected_callback"}
         /\ last.pre.setup \in {"connect", "adapter"} )
       => (setup = "done" \/ last.result = setup)
    /\ \A t \in DOMAIN tasks : tasks[t].issued # <<>> => setup = "done"

\* the callback of the match that was added last for a member
LastRegistered(member) == Delivered(member)[Len(Delivered(member))]

\* C12: a connect signal is delivered to the connected callback that was
\* registered last and to no other, a disconnect signal to the disconnected
\* callback that was registered last and to no other.
C12_SingleActiveCallback ==
    ( /\ last.op \in {"InterfacesAdded", "InterfacesRemoved"}
      /\ Delivered(last.op) # <<>> )
    => last.invoked = <<LastRegistered(last.op)>>

\* C13: set_connected_callback and set_disconnected_callback with an argument
\* that is not callable return False, leave both callback slots as they were
\* and ask the bus for no match.
C13_InvalidCallbackRejected ==
    ( /\ last.op \in {"set_connected_callback", "set_disconnected_callback"}
      /\ last.value = NotCallable )
    => ( /\ last.result = "False"
         /\ <<connected_callback, disconnected_callback>> = last.pre.slots
         /\ matches = last.pre.matches
         /\ last.issued = <<>>
         /\ \A t \in DOMAIN tasks : tasks[t].pc # "addMatch" )

\* the refused call found a callback of the application in the slot, with its
\* match on the bus
C13_Witness ==
    /\ last.op = "set_connected_callback"
    /\ last.value = NotCallable
    /\ last.result = "False"
    /\ connected_callback = "f"
    /\ <<"InterfacesAdded", "f">> \in {matches[i] : i \in DOMAIN matches}

\* C14: disconnect, set_connected_callback and set_disconnected_callback raise
\* nothing when their bus call fails: they return True when the bus call was
\* made and ended without an error, and False otherwise.
C14_NativeFailureReportedAsFalse ==
    last.op \in {"disconnect", "set_connected_callback", "set_disconnected_callback"}
    => last.result = (IF last.native = "ok" THEN "True" ELSE "False")

\* a disconnect whose bus call raised has returned False
C14_Witness ==
    /\ last.op = "disconnect"
    /\ last.native = "error"
    /\ last.issued = <<"callRemote">>
    /\ last.result = "False"
    /\ last.value \in centrals

\* the characteristic of a <<service, characteristic>> pair holds the same value
\* in self.services and in the application graph
Synced(pair) ==
    ValueOf(GetCharacteristic(services[IndexOf(services, pair[1])], pair[2]))
        = GetCharacteristic(appServices[IndexOf(appServices, pair[1])], pair[2]).value

\* the characteristic of a pair of self.services has a value to read
Readable(pair) ==
    HasValue(GetCharacteristic(services[IndexOf(services, pair[1])], pair[2]))

\* C15: right after add_new_characteristic and right after every update_value
\* that locates the characteristic, self.services and the application graph
\* hold the same value for it.
C15_SingleAuthoritativeValue ==
    /\ (last.op = "add_new_characteristic" /\ last.result = "None")
        => ( /\ <<last.su, last.cu>> \in Pairs(services) \cap Pairs(appServices)
             /\ Synced(<<last.su, last.cu>>) )
    /\ (last.op = "update_value" /\ <<last.su, last.cu>> \in Pairs(services))
        => ( /\ <<last.su, last.cu>> \in Pairs(appServices)
             /\ Synced(<<last.su, last.cu>>) )

\* C16: the keys of self.services are lowercase, and update_value called with
\* uuids that differ only in letter case from those of a registered
\* characteristic locates it.
C16_UuidsNormalised ==
    /\ \A i \in DOMAIN services : services[i].uuid = Lower(services[i].uuid)
    /\ ( /\ last.op = "update_value"
         /\ <<Lower(last.su), Lower(last.cu)>> \in Pairs(services)
         /\ Readable(<<Lower(last.su), Lower(last.cu)>>) )
       => last.result \notin {"KeyError", "False"}

C18_FailedSetupState ==
    setup \in SetupErrors
    => ( /\ last.op \in {"start", "is_advertising", "add_new_service",
                         "add_new_characteristic"}
            => (last.result = setup /\ last.issued = <<>>)
         /\ \A t \in DOMAIN tasks : tasks[t].pc \in {"idle", "setup"}
         /\ ~registered
         /\ ~advertising
         /\ appServices = <<>>
         /\ services = <<>> )

\* C18: once the setup task has failed, start and every other operation that
\* awaits it fail with the error of the task, the task does not run again, and
\* nothing is exported, registered or advertised.
C18_SetupFailureIsFatal ==
    /\ []C18_FailedSetupState
    /\ [][ (setup \in SetupErrors) => (setup' = setup) ]_vars

\* a start that was called while setup was running has failed with the error
\* that get_adapter raised
C18_Witness ==
    /\ last.op = "start"
    /\ last.pre.setup = "connect"
    /\ setup = "AdapterUnavailable"
    /\ last.result = "AdapterUnavailable"

\* C19: when the read or write handler of the application fails on an inbound
\* event, the bus gets the generic failure reply for that event, the server is
\* as it was (self.services, the application graph, still registered), and no
\* operation in flight is disturbed.
C19_HandlerFailureIsAReply ==
    (last.op \in {"read", "write"} /\ last.raised)
    => ( /\ last.result = "Failed"
         /\ last.before = <<services, appServices>>
         /\ registered )

\* a read whose handler failed, of a characteristic that stores a value
C19_Witness ==
    /\ last.op = "read"
    /\ last.raised
    /\ last.result = "Failed"
    /\ <<last.su, last.cu>> \in Pairs(services)
    /\ ValueOf(GetCharacteristic(services[IndexOf(services, last.su)], last.cu)) = "01"

\* C20: every service and characteristic of the application graph is in
\* self.services too, also while an add_new_service or add_new_characteristic
\* is suspended, and an update_value for such a characteristic locates it.
C20_FacadeMirrorsNative ==
    /\ \A i \in DOMAIN appServices : Has(services, appServices[i].uuid)
    /\ Pairs(appServices) \subseteq Pairs(services)
    /\ ( /\ last.op = "update_value"
         /\ <<last.su, last.cu>> \in Pairs(appServices)
         /\ (<<last.su, last.cu>> \in Pairs(services) => Readable(<<last.su, last.cu>>)) )
       => last.result \notin {"KeyError", "False"}

\* C17: callers that add a service, or a characteristic, which self.services
\* does not hold yet all see the operation complete, also when another call for
\* the same uuid is in flight, and the application graph gets the service and
\* the characteristic once.
C17_ConcurrentCallersShareCompletion ==
    /\ (last.op = "add_new_service" /\ setup = "done" /\ ~last.pre.svc)
        => last.result = "None"
    /\ ( /\ last.op = "add_new_characteristic"
         /\ setup = "done"
         /\ last.pre.svc
         /\ ~last.pre.chr )
        => last.result = "None"
    /\ \A i, j \in DOMAIN appServices :
          appServices[i].uuid = appServices[j].uuid => i = j
    /\ \A i \in DOMAIN appServices : \A k, l \in DOMAIN appServices[i].characteristics :
          appServices[i].characteristics[k].uuid = appServices[i].characteristics[l].uuid
          => k = l

\* the calls start and stop make to the bus, the application and the adapter
StartSteps == <<"exportObject", "requestBusName", "register", "start_advertising">>
StopSteps == <<"stop_advertising", "unregister">>

IsPrefix(s, t) == Len(s) <= Len(t) /\ \A i \in DOMAIN s : s[i] = t[i]

\* C21: start issues export, request of the bus name, registration and start of
\* the advertisement in this order, each after setup and after the step before
\* it; stop issues the stop of the advertisement before the unregistration; and
\* the server never advertises while its application is not registered.
C21_LifecycleOrder ==
    /\ \A t \in DOMAIN tasks :
          /\ tasks[t].op = "start"
                => ( /\ IsPrefix(tasks[t].issued, StartSteps)
                     /\ tasks[t].issued # <<>> => setup = "done" )
          /\ tasks[t].op = "stop" => IsPrefix(tasks[t].issued, StopSteps)
    /\ (last.op = "start" /\ last.result = "True") => last.issued = StartSteps
    /\ (last.op = "stop" /\ last.result = "True") => last.issued = StopSteps
    /\ advertising => registered

\* C22: an inbound write whose handler does not call back into the server
\* leaves the value of the characteristic as it was, in self.services and in
\* the application graph, and leaves self.services as it was.
C22_NoAutoCommit ==
    (last.op = "write" /\ ~last.commit)
    => ( /\ last.handler = <<last.cu, last.value>>
         /\ last.before = <<services, appServices>> )

\* the payload of the write differs from the value the characteristic holds,
\* before and after, in self.services and in the application graph
C22_Witness ==
    /\ last.op = "write"
    /\ ~last.commit
    /\ ~last.raised
    /\ last.value = "01"
    /\ <<last.su, last.cu>> \in Pairs(services)
    /\ ValueOf(GetCharacteristic(services[IndexOf(services, last.su)], last.cu)) = ""
    /\ GetCharacteristic(appServices[IndexOf(appServices, last.su)], last.cu).value = ""

\* C23: when set_connected_callback or set_disconnected_callback returns False,
\* for an argument that is not callable or because the bus call failed, both
\* callback slots hold what they held before the call.
C23_FailedRegistrationKeepsSlot ==
    ( /\ last.op \in {"set_connected_callback", "set_disconnected_callback"}
      /\ last.result = "False" )
    => <<connected_callback, disconnected_callback>> = last.pre.slots

====
